---- MODULE Spec2Model ----
(***************************************************************************)
(* Model of the retrying LLM-completion clients of the conversation        *)
(* service: OpenAIService (adapters/openai_service.py) and ClaudeAIService *)
(* (adapters/claude_ai_service.py).                                        *)
(*                                                                         *)
(*   Spec         one invocation of a completion operation: the retry loop *)
(*   SpecBackoff  _exponential_backoff as a function of its inputs         *)
(*   SpecPrepare  _prepare_messages_with_token_limit as a function         *)
(*   SpecParse    the parsing of a response text by generate_response      *)
(*   SpecShared   two invocations in flight on one OpenAIService instance  *)
(*   SpecConversation  invocations of ConversationCommandHandler           *)
(*                (application/command_handlers/conversation.py)           *)
(*   SpecRealtime  the fan-out of GetRealtimeDataCommandHandler            *)
(*                (source_management: command_handlers/get_realtime_data)  *)
(***************************************************************************)
EXTENDS Integers, Sequences, FiniteSets, TLC

(***************************************************************************)
(* Bounds of the model.                                                    *)
(***************************************************************************)
MaxRetries == 3

MaxAttempt == 9

MaxHist == 16

MaxHeavy == 2

MaxSnippets == 3

MaxMessageLen == 3

MaxResources == 2

(***************************************************************************)
(* Program constants.                                                      *)
(***************************************************************************)
MaxContextLength == 128000

ReservedTokens == 5000

HistoryWindow == 15

(***************************************************************************)
(* The completion operations.                                              *)
(***************************************************************************)
GenerateResponse == "openai.generate_response"
GenerateSqlResponse == "openai.generate_sql_response"
GenerateApiResponse == "openai.generate_api_response"
GenerateResponseWithResources == "openai.generate_response_with_resources"
ClaudeGenerateResponse == "claude.generate_response"

Operations ==
    {GenerateResponse, GenerateSqlResponse, GenerateApiResponse,
     GenerateResponseWithResources, ClaudeGenerateResponse}

(***************************************************************************)
(* What one completion call can do: answer with a text that parses as a    *)
(* JSON object, answer with a text that is not JSON, raise the SDK's       *)
(* RateLimitError, or raise any other error.                               *)
(***************************************************************************)
Outcomes == {"ok_json", "ok_text", "rate_limit", "error"}

SuccessOutcomes == {"ok_json", "ok_text"}

\* The error the completion API raises for an outcome.
ApiError(outcome) ==
    CASE outcome = "rate_limit" -> "RateLimitError"
      [] outcome = "error" -> "APIError"
      [] OTHER -> "none"

\* All scripts of API outcomes, one outcome per possible call.
Scripts == [1..(MaxRetries + 1) -> Outcomes]

VARIABLES
    op,             \* the operation invoked
    max_retries,    \* self._max_retries
    script,         \* the outcomes the completion API will give, in call order
    pc,             \* "idle", "attempting", "delaying", "returned", "raised"
    attempt,        \* the loop variable of `for attempt in range(1, max_retries + 1)`
    calls,          \* completion calls issued and answered so far
    delays,         \* asyncio.sleep calls completed so far
    backoffs,       \* delays computed by _exponential_backoff so far
    result,         \* the value returned to the caller
    err,            \* the error raised to the caller
    service,        \* whose _exponential_backoff: "openai" or "claude"
    initial_wait,   \* self._initial_wait, in milliseconds
    max_wait,       \* self._max_wait, in milliseconds
    backoff_attempt,\* the attempt last passed to _exponential_backoff
    wait_time,      \* the un-jittered wait_time of that call, in milliseconds
    prev_wait_time, \* the wait_time of the call before
    jitter,         \* the returned delay, in microseconds
    bpc,            \* "ready", "returned", "raised"
    prompt,         \* prompt.text
    messages,       \* the conversation history handed to prompt assembly
    knowledge,      \* vectorized_knowledge_base
    formatted,      \* the returned message list
    ppc,            \* "ready", "done"
    adapter,        \* whose generate_response parses: "openai" or "claude"
    response,       \* the text of the completion response
    parsed,         \* what generate_response does with it
    rpc,            \* "ready", "done"
    self_fields,    \* the fields of the shared OpenAIService instance
    inv,            \* the frame of each invocation in flight on it
    store,          \* the Conversations table: conversation_id -> item
    uow,            \* the repository attributes of the handler's unit of work
    ai_service,     \* the AIService the handler was built with
    hnd,            \* the frame of each invocation of the handler
    rt_uow,         \* the repository attributes of the singleton unit of work
    rt              \* the invocation of GetRealtimeDataCommandHandler

retryVars == <<op, max_retries, script, pc, attempt, calls, delays, backoffs, result, err>>

backoffVars ==
    <<service, initial_wait, max_wait, backoff_attempt, wait_time, prev_wait_time, jitter, bpc>>

prepareVars == <<prompt, messages, knowledge, formatted, ppc>>

parseVars == <<adapter, response, parsed, rpc>>

sharedVars == <<self_fields, inv>>

clientVars == <<retryVars, backoffVars, prepareVars, parseVars>>

conversationVars == <<store, uow, ai_service, hnd>>

realtimeVars == <<rt_uow, rt>>

systemVars == <<sharedVars, conversationVars, realtimeVars>>

vars == <<clientVars, systemVars>>

RetryIdle ==
    /\ op = GenerateResponse
    /\ max_retries = 0
    /\ script = [i \in 1..(MaxRetries + 1) |-> "ok_json"]
    /\ pc = "idle"
    /\ attempt = 0
    /\ calls = 0
    /\ delays = 0
    /\ backoffs = 0
    /\ result = "none"
    /\ err = "none"

BackoffIdle ==
    /\ service = "openai"
    /\ initial_wait = 500
    /\ max_wait = 60000
    /\ backoff_attempt = 0
    /\ wait_time = 0
    /\ prev_wait_time = 0
    /\ jitter = 0
    /\ bpc = "ready"

PrepareIdle ==
    /\ prompt = "p_small"
    /\ messages = <<>>
    /\ knowledge = <<>>
    /\ formatted = <<>>
    /\ ppc = "ready"

ParseIdle ==
    /\ adapter = "openai"
    /\ response = <<>>
    /\ parsed = [outcome |-> "none", message |-> <<>>, payload |-> {}, error |-> "none"]
    /\ rpc = "ready"

\* Local frame of an invocation that has not started.
IdleFrame ==
    [op |-> GenerateResponse, messages |-> 0, formatted_messages |-> <<>>,
     pc |-> "idle", attempt |-> 0, calls |-> 0, delays |-> 0, err |-> "none",
     outcomes |-> <<>>, sent |-> <<>>, cancelled |-> FALSE]

SharedIdle ==
    /\ self_fields = [max_retries |-> 0, temperature |-> 0, max_tokens |-> 1000]
    /\ inv = [i \in 1..2 |-> IdleFrame]

ConversationIds == {"c1", "c2"}

Handlers == 1..3

\* The value of get_item when the table has no item for the key.
Absent == [exists |-> FALSE, messages |-> <<>>]

Stored(msgs) == [exists |-> TRUE, messages |-> msgs]

\* Local frame of a handler invocation that has not started.
IdleHandler ==
    [pc |-> "idle", conversation_id |-> "c1", before |-> Absent, messages |-> <<>>,
     saved |-> <<>>, err |-> "none", message |-> <<>>]

ConversationIdle ==
    /\ store = [c \in ConversationIds |-> Absent]
    /\ uow = [agent_chat_bots |-> "None", conversations |-> "None"]
    /\ ai_service = "OpenAIService"
    /\ hnd = [h \in Handlers |-> IdleHandler]

RealtimeIdle ==
    /\ rt_uow = [realtime_resources |-> "unset", realtime_databases |-> "unset"]
    /\ rt = [pc |-> "idle", command |-> <<>>, tasks |-> <<>>, results |-> <<>>]

SystemIdle == SharedIdle /\ ConversationIdle /\ RealtimeIdle

Init == RetryIdle /\ BackoffIdle /\ PrepareIdle /\ ParseIdle /\ SystemIdle

(***************************************************************************)
(* The arithmetic of _exponential_backoff.  Times are integers: waits in   *)
(* milliseconds, the jitter factor of random.uniform(0.5, 1.5) in          *)
(* thousandths, the returned delay in microseconds.                        *)
(***************************************************************************)
Min(a, b) == IF a <= b THEN a ELSE b

\* The values of self._initial_wait and self._max_wait tried; 500 and 1000
\* are the defaults of the two services, 60000 the default maximum.
InitialWaits == {500, 1000, 7000}

MaxWaits == {7000, 60000}

\* Values random.uniform(0.5, 1.5) can return, in thousandths.
JitterFactors == {500, 750, 1000, 1250, 1500}

\* wait_time without the cap.
UncappedWait(initial, maximum, n) == initial * (2 ^ (n - 1))

\* wait_time as it would be with 2 ** attempt for 2 ** (attempt - 1).
UnjitteredWaitFromTwo(initial, maximum, n) == Min(maximum, initial * (2 ^ n))

\* wait_time = min(self._max_wait, self._initial_wait * (2 ** (attempt - 1)))
UnjitteredWait(initial, maximum, n) == Min(maximum, initial * (2 ^ (n - 1)))

(***************************************************************************)
(* The retry loop, per operation.  A handler outcome is a record: where    *)
(* the operation goes next, what it returns or raises, and whether it      *)
(* obtained a delay from _exponential_backoff on the way.                  *)
(***************************************************************************)
Returns(value) == [pc |-> "returned", result |-> value, err |-> "none", backoff |-> 0]

Raises(error) == [pc |-> "raised", result |-> "none", err |-> error, backoff |-> 0]

Sleeps == [pc |-> "delaying", result |-> "none", err |-> "none", backoff |-> 1]

\* generate_api_response hands its system prompt, a str, to
\* _prepare_messages_with_token_limit, which reads prompt.text.
PrepareRaises(o) == o = GenerateApiResponse

\* The value of the operation when the for loop ends without a return.
FallThrough(o) ==
    CASE o = GenerateApiResponse -> "EmptyDict"
      [] o = GenerateResponseWithResources -> "EmptyString"
      [] OTHER -> "None"

\* `wait_time = await self._exponential_backoff(attempt)` and the sleep
\* that follows.  claude_ai_service.py uses random without importing it.
BackoffThenSleep(o) ==
    IF o = ClaudeGenerateResponse THEN Raises("NameError") ELSE Sleeps

\* The completion call returned a response.
OnSuccess(o, n, k, outcome) ==
    CASE o \in {GenerateResponse, ClaudeGenerateResponse} ->
            IF outcome = "ok_json" THEN Returns("Structured") ELSE Returns("RawFallback")
      [] o = GenerateSqlResponse ->
            IF outcome = "ok_json" THEN Returns("Query") ELSE Returns("RawTuple")
      [] o = GenerateResponseWithResources -> Returns("Content")
      [] o = GenerateApiResponse ->
            IF outcome = "ok_json" THEN Returns("Parsed")
            ELSE IF n = k THEN Raises("RuntimeError")
            ELSE BackoffThenSleep(o)

\* The completion call raised RateLimitError.
OnRateLimit(o, n, k) ==
    IF n = k
    THEN IF o = GenerateApiResponse THEN Raises("RuntimeError") ELSE Raises("RateLimitError")
    ELSE BackoffThenSleep(o)

\* OnError as it would be if every error were retried like a rate limit.
OnErrorRetried(o, n, k) == OnRateLimit(o, n, k)

\* The completion call raised any other error.
OnError(o, n, k) ==
    IF o = GenerateApiResponse THEN Raises("RuntimeError") ELSE Raises("APIError")

\* asyncio.sleep(wait_time) is over.
AfterSleep(o, n, k) ==
    CASE o = GenerateApiResponse -> Returns("EmptyDict")
      [] o = GenerateResponseWithResources -> Returns("EmptyString")
      [] OTHER -> [pc |-> "attempting", result |-> "none", err |-> "none", backoff |-> 0]

Outcome == script[calls + 1]

\* A caller invokes operation o on a service built with max_retries = k,
\* initial_wait = iw and max_wait = mw, and the API will answer with
\* script s.
Invoke(o, k, s, iw, mw) ==
    /\ pc = "idle"
    /\ op' = o
    /\ service' = IF o = ClaudeGenerateResponse THEN "claude" ELSE "openai"
    /\ initial_wait' = iw
    /\ max_wait' = mw
    /\ max_retries' = k
    /\ script' = s
    /\ IF PrepareRaises(o)
       THEN /\ pc' = "raised"
            /\ err' = "AttributeError"
            /\ UNCHANGED <<attempt, result>>
       ELSE IF k >= 1
            THEN /\ pc' = "attempting"
                 /\ attempt' = 1
                 /\ UNCHANGED <<result, err>>
            ELSE /\ pc' = "returned"
                 /\ result' = FallThrough(o)
                 /\ UNCHANGED <<attempt, err>>
    /\ UNCHANGED <<calls, delays, backoffs>>
    /\ UNCHANGED <<backoff_attempt, wait_time, prev_wait_time, jitter, bpc>>
    /\ UNCHANGED <<prepareVars, parseVars, systemVars>>

\* The handler runs from the answer of the completion call to its next
\* suspension point or to its end.
Handle(h) ==
    /\ pc' = h.pc
    /\ result' = h.result
    /\ err' = h.err
    /\ backoffs' = backoffs + h.backoff
    /\ IF h.backoff = 1
       THEN \E factor \in JitterFactors :
                /\ backoff_attempt' = attempt
                /\ wait_time' = UnjitteredWait(initial_wait, max_wait, attempt)
                /\ prev_wait_time' = wait_time
                /\ jitter' = wait_time' * factor
       ELSE UNCHANGED <<backoff_attempt, wait_time, prev_wait_time, jitter>>
    /\ UNCHANGED <<service, initial_wait, max_wait, bpc>>

CallSucceeds ==
    /\ pc = "attempting"
    /\ Outcome \in SuccessOutcomes
    /\ calls' = calls + 1
    /\ Handle(OnSuccess(op, attempt, max_retries, Outcome))
    /\ UNCHANGED <<op, max_retries, script, attempt, delays>>
    /\ UNCHANGED <<prepareVars, parseVars, systemVars>>

CallRateLimited ==
    /\ pc = "attempting"
    /\ Outcome = "rate_limit"
    /\ calls' = calls + 1
    /\ Handle(OnRateLimit(op, attempt, max_retries))
    /\ UNCHANGED <<op, max_retries, script, attempt, delays>>
    /\ UNCHANGED <<prepareVars, parseVars, systemVars>>

CallFails ==
    /\ pc = "attempting"
    /\ Outcome = "error"
    /\ calls' = calls + 1
    /\ Handle(OnError(op, attempt, max_retries))
    /\ UNCHANGED <<op, max_retries, script, attempt, delays>>
    /\ UNCHANGED <<prepareVars, parseVars, systemVars>>

SleepDone ==
    /\ pc = "delaying"
    /\ delays' = delays + 1
    /\ Handle(AfterSleep(op, attempt, max_retries))
    /\ attempt' = IF pc' = "attempting" THEN attempt + 1 ELSE attempt
    /\ UNCHANGED <<op, max_retries, script, calls>>
    /\ UNCHANGED <<prepareVars, parseVars, systemVars>>

Invocation ==
    /\ pc = "idle"
    /\ \E o \in Operations, k \in 0..MaxRetries, s \in Scripts :
            \E iw \in InitialWaits :
                \E mw \in {m \in MaxWaits : m >= iw} :
                    Invoke(o, k, s, iw, mw)

Next ==
    \/ Invocation
    \/ CallSucceeds
    \/ CallRateLimited
    \/ CallFails
    \/ SleepDone

Spec == Init /\ [][Next]_vars

Terminal == pc \in {"returned", "raised"}

(***************************************************************************)
(* Claims about the retry loop.                                            *)
(***************************************************************************)
AllRateLimited(n) == \A i \in 1..n : script[i] = "rate_limit"

\* C1: with max_retries = k the completion API is called at most k+1
\* times, and an operation whose calls are all rate-limited has, when it
\* ends, made exactly k+1 calls and k backoff delays and ends in Exhausted
\* (the rate-limit error is raised to the caller).
C1_RetryCount ==
    /\ calls <= max_retries + 1
    /\ (Terminal /\ calls >= 1 /\ AllRateLimited(max_retries + 1)) =>
            /\ calls = max_retries + 1
            /\ delays = max_retries
            /\ pc = "raised"
            /\ err = "RateLimitError"

\* C2: with max_retries = k, an operation whose first k calls are
\* rate-limited and whose call k+1 would succeed returns, when it ends, the
\* result of that response after exactly k+1 calls and k delays.
C2_SuccessAfterRetries ==
    (/\ Terminal
     /\ calls >= 1
     /\ AllRateLimited(max_retries)
     /\ script[max_retries + 1] \in SuccessOutcomes) =>
            /\ pc = "returned"
            /\ result \in {"Structured", "RawFallback", "Query", "RawTuple", "Content", "Parsed"}
            /\ calls = max_retries + 1
            /\ delays = max_retries

\* C3: when a completion call fails with an error that is not a rate-limit
\* error, the operation raises to its caller at once: it computes no
\* backoff delay, does not sleep and makes no further call (an error on
\* attempt 1 gives one call in total), and nothing happens after the raise.
C3_NoRetryOnOtherError ==
    [][/\ (pc = "attempting" /\ Outcome = "error") =>
            /\ pc' = "raised"
            /\ err' # "none"
            /\ backoffs' = backoffs
            /\ delays' = delays
            /\ (attempt = 1 => calls' = 1)
       /\ (pc = "raised" => UNCHANGED vars)]_vars

\* Witness of C3: the second attempt of an invocation failed with a
\* non-rate-limit error and the operation has raised.
C3_Witness ==
    /\ pc = "raised"
    /\ calls = 2
    /\ script[2] = "error"
    /\ delays = 1

\* C4: every completed backoff delay is followed by attempt n+1 of the
\* completion call, never by a return to the caller.
C4_DelayThenRetry ==
    [][pc = "delaying" => (pc' = "attempting" /\ attempt' = attempt + 1)]_vars

\* C5: no operation returns a value to its caller when its most recent
\* completion call failed with a rate-limit error.
C5_RateLimitNeverReturned ==
    (pc = "returned" /\ calls >= 1) => script[calls] # "rate_limit"

\* C6: every invocation ends either by returning after a successful
\* completion call, or by raising the rate-limit error (Exhausted), or by
\* raising the other error (FatalError); it never returns a value without a
\* successful completion call.
C6_ThreeWayOutcome ==
    /\ pc = "returned" => (calls >= 1 /\ script[calls] \in SuccessOutcomes)
    /\ pc = "raised" =>
            /\ calls >= 1
            /\ \/ (script[calls] = "rate_limit" /\ err = "RateLimitError")
               \/ (script[calls] = "error" /\ err = "APIError")

\* C7: every error an operation surfaces after a failed completion call is
\* the error the completion API raised.
C7_ErrorUnmodified ==
    (pc = "raised" /\ calls >= 1 /\ script[calls] \in {"rate_limit", "error"}) =>
        err = ApiError(script[calls])

\* C11: prompt assembly never fails: no operation raises before its first
\* completion call has been answered.
C11_PrepareNeverFails ==
    pc = "raised" => calls >= 1

\* C13: when the completion call succeeds with a text that is not valid
\* JSON, every operation that parses JSON returns the raw response text as
\* its fallback result and does not raise.
C13_MalformedIsRawFallback ==
    (/\ Terminal
     /\ calls >= 1
     /\ script[calls] = "ok_text"
     /\ op \in {GenerateResponse, GenerateSqlResponse, GenerateApiResponse,
                ClaudeGenerateResponse}) =>
        (pc = "returned" /\ result = "RawFallback")

\* C17: the delay taken after the n-th failed attempt of an invocation is
\* min(max_wait, initial_wait*2^(n-1)) times a factor in [0.5, 1.5]: the
\* first un-jittered delay is initial_wait and each later one is twice the
\* one before, capped at max_wait.
C17_DelaysDouble ==
    [][(pc = "attempting" /\ pc' = "delaying") =>
            /\ wait_time' = Min(max_wait, initial_wait * (2 ^ (calls' - 1)))
            /\ 500 * wait_time' <= jitter'
            /\ jitter' <= 1500 * wait_time'
            /\ (calls' = 1 => wait_time' = initial_wait)
            /\ (calls' > 1 => wait_time' = Min(max_wait, 2 * wait_time))]_vars

\* Witness of C17: the second delay of an invocation is being taken and
\* its un-jittered value is twice the first.
C17_Witness ==
    /\ pc = "delaying"
    /\ calls = 2
    /\ delays = 1
    /\ wait_time = 2 * initial_wait
    /\ prev_wait_time = initial_wait
    /\ wait_time < max_wait

Ended(h, c, d) == [pc |-> h.pc, err |-> h.err, calls |-> c, delays |-> d]

\* The loop from attempt n on, d delays having been taken.
RECURSIVE RunLoop(_, _, _, _, _)
RunLoop(o, k, s, n, d) ==
    LET h == CASE s[n] \in SuccessOutcomes -> OnSuccess(o, n, k, s[n])
               [] s[n] = "rate_limit" -> OnRateLimit(o, n, k)
               [] OTHER -> OnError(o, n, k)
    IN  IF h.pc = "delaying"
        THEN LET a == AfterSleep(o, n, k)
             IN  IF a.pc = "attempting"
                 THEN RunLoop(o, k, s, n + 1, d + 1)
                 ELSE Ended(a, n, d + 1)
        ELSE Ended(h, n, d)

Run(o, k, s) ==
    IF PrepareRaises(o) THEN Ended(Raises("AttributeError"), 0, 0)
    ELSE IF k >= 1 THEN RunLoop(o, k, s, 1, 0)
    ELSE Ended(Returns(FallThrough(o)), 0, 0)

\* C20: for the same max_retries and the same API outcomes the Claude-backed
\* generate_response makes as many calls and delays as the OpenAI-backed
\* one and ends in the same terminal state with the same kind of error.
C20_AdaptersAgree ==
    (Terminal /\ op = ClaudeGenerateResponse) =>
        LET openai == Run(GenerateResponse, max_retries, script)
        IN  /\ calls = openai.calls
            /\ delays = openai.delays
            /\ pc = openai.pc
            /\ err = openai.err

(***************************************************************************)
(* _exponential_backoff as a function of its inputs.                       *)
(***************************************************************************)
InitBackoff ==
    /\ RetryIdle
    /\ SystemIdle
    /\ PrepareIdle
    /\ ParseIdle
    /\ service \in {"openai", "claude"}
    /\ initial_wait \in InitialWaits
    /\ max_wait \in {m \in MaxWaits : m >= initial_wait}
    /\ backoff_attempt = 0
    /\ wait_time = 0
    /\ prev_wait_time = 0
    /\ jitter = 0
    /\ bpc = "ready"

\* OpenAIService._exponential_backoff(attempt), called as the retry loop
\* calls it: with attempt = 1, 2, 3, ...
ExponentialBackoff(factor) ==
    /\ service = "openai"
    /\ bpc \in {"ready", "returned"}
    /\ backoff_attempt < MaxAttempt
    /\ backoff_attempt' = backoff_attempt + 1
    /\ wait_time' = UnjitteredWait(initial_wait, max_wait, backoff_attempt')
    /\ prev_wait_time' = wait_time
    /\ jitter' = wait_time' * factor
    /\ bpc' = "returned"
    /\ UNCHANGED <<service, initial_wait, max_wait>>
    /\ UNCHANGED <<retryVars, prepareVars, parseVars, systemVars>>

\* ClaudeAIService._exponential_backoff(attempt): the module never imports
\* random, so the jitter line raises NameError after wait_time is computed.
ClaudeExponentialBackoff ==
    /\ service = "claude"
    /\ bpc = "ready"
    /\ backoff_attempt < MaxAttempt
    /\ backoff_attempt' = backoff_attempt + 1
    /\ wait_time' = UnjitteredWait(initial_wait, max_wait, backoff_attempt')
    /\ prev_wait_time' = wait_time
    /\ bpc' = "raised"
    /\ UNCHANGED <<service, initial_wait, max_wait, jitter>>
    /\ UNCHANGED <<retryVars, prepareVars, parseVars, systemVars>>

NextBackoff ==
    \/ \E factor \in JitterFactors : ExponentialBackoff(factor)
    \/ ClaudeExponentialBackoff

SpecBackoff == InitBackoff /\ [][NextBackoff]_vars

Prompts == {"p_small", "p_huge"}

Resources == {"r_small", "r_big"}

\* system_prompt_template = f"{prompt.text}\n\n{self._system_prompt}\n"
SystemPromptTemplate(p) == <<p, "\n\n", "system_prompt", "\n">>

\* resource_content = f'Resource: {resource}\n'
ResourceContent(r) == <<"Resource: ", r, "\n">>

\* self._count_tokens(text)
count_tokens(text) ==
    CASE text = SystemPromptTemplate("p_small") -> 1000
      [] text = SystemPromptTemplate("p_huge") -> 124000
      [] text = ResourceContent("r_small") -> 20000
      [] text = ResourceContent("r_big") -> 40000
      [] text = <<"m_light">> -> 1000
      [] text = <<"m_heavy">> -> 61000

\* A history of n messages, user and assistant in turn, whose messages at
\* the positions of heavy are long.
History(n, heavy) ==
    [i \in 1..n |->
        [role |-> IF i % 2 = 1 THEN "user" ELSE "assistant",
         content |-> IF i \in heavy THEN <<"m_heavy">> ELSE <<"m_light">>]]

Histories ==
    UNION {{History(n, heavy) :
                heavy \in {h \in SUBSET (1..n) : Cardinality(h) <= MaxHeavy}} :
           n \in 0..MaxHist}

KnowledgeBases == UNION {[1..n -> Resources] : n \in 0..MaxSnippets}

RECURSIVE SumTokens(_)
SumTokens(texts) ==
    IF texts = <<>> THEN 0
    ELSE count_tokens(Head(texts)) + SumTokens(Tail(texts))

\* The window as it would be with seq[:HistoryWindow].
FirstEntries(seq) ==
    IF Len(seq) <= HistoryWindow THEN seq
    ELSE SubSeq(seq, 1, HistoryWindow)

\* seq[-HistoryWindow:]
LastEntries(seq) ==
    IF Len(seq) <= HistoryWindow THEN seq
    ELSE SubSeq(seq, Len(seq) - HistoryWindow + 1, Len(seq))

Contents(msgs) == [i \in 1..Len(msgs) |-> msgs[i].content]

\* message_tokens = sum(self._count_tokens(msg.content) for msg in messages[-15:])
MessageTokens(msgs) == SumTokens(Contents(LastEntries(msgs)))

\* available_tokens as it would be if the history were left out of it.
AvailableTokensNoHistory(p, msgs) ==
    MaxContextLength - count_tokens(SystemPromptTemplate(p)) - ReservedTokens

\* available_tokens = self._max_context_length - system_prompt_tokens
\*                    - message_tokens - reserved_tokens
AvailableTokens(p, msgs) ==
    MaxContextLength - count_tokens(SystemPromptTemplate(p)) - MessageTokens(msgs)
        - ReservedTokens

\* The loop over the resources as it would be with `continue` for `break`.
RECURSIVE KnowledgeBaseContentSkipping(_, _, _, _)
KnowledgeBaseContentSkipping(resources, total_kb_tokens, content, available_tokens) ==
    IF resources = <<>> THEN content
    ELSE LET resource_content == ResourceContent(Head(resources))
             resource_tokens == count_tokens(resource_content)
         IN  IF total_kb_tokens + resource_tokens <= available_tokens
             THEN KnowledgeBaseContentSkipping(Tail(resources), total_kb_tokens + resource_tokens,
                                       Append(content, resource_content), available_tokens)
             ELSE KnowledgeBaseContentSkipping(Tail(resources), total_kb_tokens,
                                       content, available_tokens)

\* The loop as it would be with `<` for `<=` in the test of the budget.
RECURSIVE KnowledgeBaseContentStrict(_, _, _, _)
KnowledgeBaseContentStrict(resources, total_kb_tokens, content, available_tokens) ==
    IF resources = <<>> THEN content
    ELSE LET resource_content == ResourceContent(Head(resources))
             resource_tokens == count_tokens(resource_content)
         IN  IF total_kb_tokens + resource_tokens < available_tokens
             THEN KnowledgeBaseContentStrict(Tail(resources), total_kb_tokens + resource_tokens,
                                       Append(content, resource_content), available_tokens)
             ELSE content

\* The loop as it would be if the first resource were appended whatever
\* the budget.
RECURSIVE KnowledgeBaseContentAtLeastOne(_, _, _, _)
KnowledgeBaseContentAtLeastOne(resources, total_kb_tokens, content, available_tokens) ==
    IF resources = <<>> THEN content
    ELSE LET resource_content == ResourceContent(Head(resources))
             resource_tokens == count_tokens(resource_content)
         IN  IF content = <<>> \/ total_kb_tokens + resource_tokens <= available_tokens
             THEN KnowledgeBaseContentAtLeastOne(Tail(resources), total_kb_tokens + resource_tokens,
                                       Append(content, resource_content), available_tokens)
             ELSE content

\* The loop `for resource in vectorized_knowledge_base`: the contents
\* appended to knowledge_base_content, given those appended so far.
RECURSIVE KnowledgeBaseContent(_, _, _, _)
KnowledgeBaseContent(resources, total_kb_tokens, content, available_tokens) ==
    IF resources = <<>> THEN content
    ELSE LET resource_content == ResourceContent(Head(resources))
             resource_tokens == count_tokens(resource_content)
         IN  IF total_kb_tokens + resource_tokens <= available_tokens
             THEN KnowledgeBaseContent(Tail(resources), total_kb_tokens + resource_tokens,
                                       Append(content, resource_content), available_tokens)
             ELSE content

\* '\n'.join(texts)
RECURSIVE Join(_)
Join(texts) ==
    IF texts = <<>> THEN <<>>
    ELSE IF Len(texts) = 1 THEN Head(texts)
    ELSE Head(texts) \o <<"\n">> \o Join(Tail(texts))

\* The returned list: the system message, whose content is the template
\* followed by '\n'.join(knowledge_base_content), then the last entries of
\* the history as role/content pairs.
FormattedMessages(p, kb, msgs) ==
    <<[role |-> "system",
       content |-> SystemPromptTemplate(p)
                   \o Join(KnowledgeBaseContent(kb, 0, <<>>, AvailableTokens(p, msgs)))]>>
    \o LastEntries([i \in 1..Len(msgs) |->
                        [role |-> msgs[i].role, content |-> msgs[i].content]])

InitPrepare ==
    /\ RetryIdle
    /\ SystemIdle
    /\ BackoffIdle
    /\ ParseIdle
    /\ prompt \in Prompts
    /\ messages \in Histories
    /\ knowledge \in KnowledgeBases
    /\ formatted = <<>>
    /\ ppc = "ready"

PrepareMessagesWithTokenLimit ==
    /\ ppc = "ready"
    /\ formatted' = FormattedMessages(prompt, knowledge, messages)
    /\ ppc' = "done"
    /\ UNCHANGED <<prompt, messages, knowledge>>
    /\ UNCHANGED <<retryVars, backoffVars, parseVars, systemVars>>

NextPrepare == PrepareMessagesWithTokenLimit

SpecPrepare == InitPrepare /\ [][NextPrepare]_vars

\* The system prompt template at the head of the returned system message.
TemplatePart == SubSeq(formatted[1].content, 1, Len(SystemPromptTemplate(prompt)))

\* The snippets read back from a joined knowledge section: each is the
\* three pieces of a resource_content, and a "\n" separates two of them.
RECURSIVE SplitKnowledge(_)
SplitKnowledge(text) ==
    IF Len(text) < 3 THEN <<>>
    ELSE <<SubSeq(text, 1, 3)>> \o SplitKnowledge(SubSeq(text, 5, Len(text)))

\* The snippets included in the returned system message.
Included ==
    SplitKnowledge(SubSeq(formatted[1].content,
                          Len(SystemPromptTemplate(prompt)) + 1,
                          Len(formatted[1].content)))

\* The counted size of the returned messages: the system prompt template,
\* the included snippets with their separators, and the included history.
TotalTokens ==
    count_tokens(TemplatePart)
    + SumTokens(Included)
    + SumTokens(Contents(Tail(formatted)))

C10_SnippetPrefix ==
    ppc = "done" =>
        \E j \in 0..Len(knowledge) :
            formatted[1].content =
                SystemPromptTemplate(prompt)
                \o Join([i \in 1..j |-> ResourceContent(knowledge[i])])

\* Witness of C10: a snippet that would have fit was dropped because it
\* comes after one that did not fit.
C10_Witness ==
    /\ ppc = "done"
    /\ Len(knowledge) = 3
    /\ Len(Included) = 1
    /\ knowledge[2] = "r_big"
    /\ knowledge[3] = "r_small"
    /\ SumTokens(Included) + count_tokens(ResourceContent("r_small"))
            <= AvailableTokens(prompt, messages)

\* The counted size of the first i snippets of the input.
PrefixTokens(i) == SumTokens([x \in 1..i |-> ResourceContent(knowledge[x])])

\* available, from the inputs and the history entries that were returned.
Available ==
    MaxContextLength - count_tokens(SystemPromptTemplate(prompt))
        - SumTokens(Contents(Tail(formatted))) - ReservedTokens

\* C14: the included snippets are the longest prefix of the input whose
\* cumulative counted tokens stay <= available: every included snippet fit
\* and the first snippet left out, if any, would have overflowed.
C14_LongestPrefix ==
    ppc = "done" =>
        LET j == Len(Included)
        IN  /\ j <= Len(knowledge)
            /\ Included = [i \in 1..j |-> ResourceContent(knowledge[i])]
            /\ (j >= 1 => PrefixTokens(j) <= Available)
            /\ (j < Len(knowledge) => PrefixTokens(j + 1) > Available)

\* Witness of C14: three snippets of 20000, 20000 and 40000 tokens with
\* 60000 available; the first two are included and the third is dropped.
C14_Witness ==
    /\ ppc = "done"
    /\ knowledge = <<"r_small", "r_small", "r_big">>
    /\ Available = 60000
    /\ Len(Included) = 2

\* C15: when available <= 0 no snippet is included and the system message
\* and the trimmed history are still returned; with no snippet offered the
\* system message is exactly the template.
C15_NothingFits ==
    ppc = "done" =>
        /\ (Available <= 0 =>
                /\ formatted[1] = [role |-> "system", content |-> SystemPromptTemplate(prompt)]
                /\ Len(formatted) = 1 + Min(HistoryWindow, Len(messages)))
        /\ (knowledge = <<>> =>
                formatted[1] = [role |-> "system", content |-> SystemPromptTemplate(prompt)])

\* Witness of C15: snippets were offered with nothing available.
C15_Witness ==
    /\ ppc = "done"
    /\ knowledge # <<>>
    /\ Available <= 0
    /\ Len(messages) >= 1
    /\ Included = <<>>

\* C16: the returned list is one system message followed by the last
\* min(15, len(history)) entries of the history, in order, with role and
\* content unchanged, and the tokens summed into the history's share of
\* the budget are those of the same entries.
C16_TrimmedHistory ==
    ppc = "done" =>
        LET m == Min(HistoryWindow, Len(messages))
        IN  /\ Len(formatted) = 1 + m
            /\ formatted[1].role = "system"
            /\ \A i \in 1..m :
                    /\ formatted[1 + i].role = messages[Len(messages) - m + i].role
                    /\ formatted[1 + i].content = messages[Len(messages) - m + i].content
            /\ MessageTokens(messages) = SumTokens(Contents(Tail(formatted)))

\* Witness of C16: a history longer than the window was trimmed and its
\* oldest entry, the only long one, left out of the result and of the sum.
C16_Witness ==
    /\ ppc = "done"
    /\ Len(messages) = HistoryWindow + 1
    /\ Len(formatted) = HistoryWindow + 1
    /\ messages[1].content = <<"m_heavy">>
    /\ MessageTokens(messages) = HistoryWindow * count_tokens(<<"m_light">>)

(***************************************************************************)
(* The parsing of a response text by generate_response.  A text is the     *)
(* sequence of its lexemes; the characters of a message are "h" and "*".   *)
(***************************************************************************)
Chars == {"h", "*"}

Strings == UNION {[1..n -> Chars] : n \in 0..MaxMessageLen}

MessageKey == "\"message\":"

PayloadKey == "\"payload\":"

\* {"error": "Could not parse JSON response"}
ErrorPayload == {<<"error", "Could not parse JSON response">>}

\* The payload objects of the response texts and the values they denote.
PayloadTexts == {"{}", "{\"x\": 1}", "{\"error\": \"Could not parse JSON response\"}"}

PayloadValue(text) ==
    CASE text = "{}" -> {}
      [] text = "{\"x\": 1}" -> {<<"x", "1">>}
      [] text = "{\"error\": \"Could not parse JSON response\"}" -> ErrorPayload

StringLiteral(str) == <<"\"">> \o str \o <<"\"">>

\* The texts of the JSON objects with at most the keys message and payload.
ObjectTexts ==
    {<<"{", "}">>}
    \cup {<<"{", MessageKey>> \o StringLiteral(m) \o <<"}">> : m \in Strings}
    \cup {<<"{", PayloadKey, p, "}">> : p \in PayloadTexts}
    \cup {<<"{", MessageKey>> \o StringLiteral(m) \o <<",", PayloadKey, p, "}">> :
                m \in Strings, p \in PayloadTexts}

\* The texts that are JSON: the objects and the empty array.
JsonTexts == ObjectTexts \cup {<<"[", "]">>}

\* Texts that are not JSON: bare words and an object cut before its end.
NonJsonTexts ==
    Strings \cup {<<"{", MessageKey>> \o StringLiteral(<<"h">>)}

ResponseTexts == JsonTexts \cup NonJsonTexts

\* What json.loads makes of a text: a value, or JSONDecodeError (ok FALSE).
JsonValue(kind, has_message, message, has_payload, payload) ==
    [ok |-> TRUE, kind |-> kind, has_message |-> has_message, message |-> message,
     has_payload |-> has_payload, payload |-> payload]

JSONDecodeError ==
    [ok |-> FALSE, kind |-> "none", has_message |-> FALSE, message |-> <<>>,
     has_payload |-> FALSE, payload |-> {}]

\* The members of an object: an optional message, then an optional payload.
LoadsMembers(inner) ==
    IF inner = <<>> THEN JsonValue("object", FALSE, <<>>, FALSE, {})
    ELSE IF Len(inner) = 2 /\ inner[1] = PayloadKey /\ inner[2] \in PayloadTexts
    THEN JsonValue("object", FALSE, <<>>, TRUE, PayloadValue(inner[2]))
    ELSE IF Len(inner) >= 3 /\ inner[1] = MessageKey /\ inner[2] = "\""
                /\ \E q \in 3..Len(inner) : inner[q] = "\""
    THEN LET q == CHOOSE i \in 3..Len(inner) :
                      inner[i] = "\"" /\ \A x \in 3..(i - 1) : inner[x] # "\""
             str == SubSeq(inner, 3, q - 1)
             rest == SubSeq(inner, q + 1, Len(inner))
         IN  IF \E x \in 1..Len(str) : str[x] \notin Chars THEN JSONDecodeError
             ELSE IF rest = <<>> THEN JsonValue("object", TRUE, str, FALSE, {})
             ELSE IF Len(rest) = 3 /\ rest[1] = "," /\ rest[2] = PayloadKey
                        /\ rest[3] \in PayloadTexts
             THEN JsonValue("object", TRUE, str, TRUE, PayloadValue(rest[3]))
             ELSE JSONDecodeError
    ELSE JSONDecodeError

\* json.loads(text)
Loads(text) ==
    IF text = <<"[", "]">> THEN JsonValue("array", FALSE, <<>>, FALSE, {})
    ELSE IF Len(text) >= 2 /\ text[1] = "{" /\ text[Len(text)] = "}"
    THEN LoadsMembers(SubSeq(text, 2, Len(text) - 1))
    ELSE JSONDecodeError

\* message.replace("**", "")
RECURSIVE RemoveBold(_)
RemoveBold(str) ==
    IF Len(str) < 2 THEN str
    ELSE IF str[1] = "*" /\ str[2] = "*" THEN RemoveBold(SubSeq(str, 3, Len(str)))
    ELSE <<str[1]>> \o RemoveBold(Tail(str))

\* How the parsing of a response ends: the returned pair or the error.
ReturnsPair(message, payload) ==
    [outcome |-> "returned", message |-> message, payload |-> payload, error |-> "none"]

ParseRaises(error) ==
    [outcome |-> "raised", message |-> <<>>, payload |-> {}, error |-> error]

\* response_json.get("message", "") and response_json.get("payload", {})
GetMessage(value) == IF value.has_message THEN value.message ELSE <<>>

GetPayload(value) == IF value.has_payload THEN value.payload ELSE {}

\* The inner try of OpenAIService.generate_response.  A value that is not
\* an object has no get: AttributeError, which `except Exception` re-raises.
OpenAIParse(text) ==
    LET response_json == Loads(text)
    IN  IF ~response_json.ok THEN ReturnsPair(text, ErrorPayload)
        ELSE IF response_json.kind # "object" THEN ParseRaises("AttributeError")
        ELSE ReturnsPair(RemoveBold(GetMessage(response_json)), GetPayload(response_json))

\* The inner try of ClaudeAIService.generate_response.
ClaudeParse(text) ==
    LET response_json == Loads(text)
    IN  IF ~response_json.ok THEN ReturnsPair(text, ErrorPayload)
        ELSE IF response_json.kind # "object" THEN ParseRaises("AttributeError")
        ELSE ReturnsPair(GetMessage(response_json), GetPayload(response_json))

Parse(a, text) == IF a = "claude" THEN ClaudeParse(text) ELSE OpenAIParse(text)

InitParse ==
    /\ RetryIdle
    /\ SystemIdle
    /\ BackoffIdle
    /\ PrepareIdle
    /\ adapter \in {"openai", "claude"}
    /\ response \in ResponseTexts
    /\ parsed = [outcome |-> "none", message |-> <<>>, payload |-> {}, error |-> "none"]
    /\ rpc = "ready"

OpenAIParseResponse ==
    /\ rpc = "ready"
    /\ adapter = "openai"
    /\ parsed' = OpenAIParse(response)
    /\ rpc' = "done"
    /\ UNCHANGED <<adapter, response>>
    /\ UNCHANGED <<retryVars, backoffVars, prepareVars, systemVars>>

ClaudeParseResponse ==
    /\ rpc = "ready"
    /\ adapter = "claude"
    /\ parsed' = ClaudeParse(response)
    /\ rpc' = "done"
    /\ UNCHANGED <<adapter, response>>
    /\ UNCHANGED <<retryVars, backoffVars, prepareVars, systemVars>>

NextParse == OpenAIParseResponse \/ ClaudeParseResponse

SpecParse == InitParse /\ [][NextParse]_vars

\* C12: for every response text that parses as a JSON object,
\* generate_response of either adapter returns the message field with
\* every "**" removed (the empty string when absent) and the payload field
\* (the empty mapping when absent).
C12_StructuredResult ==
    (rpc = "done" /\ Loads(response).ok /\ Loads(response).kind = "object") =>
        /\ parsed.outcome = "returned"
        /\ parsed.message = RemoveBold(GetMessage(Loads(response)))
        /\ parsed.payload = GetPayload(Loads(response))

\* C19: no response text that fails JSON parsing gives the same returned
\* (message, payload) pair as some response text that parses.
C19_FallbackDistinguishable ==
    (rpc = "done" /\ ~Loads(response).ok) =>
        \A text \in JsonTexts : Parse(adapter, text) # parsed

(***************************************************************************)
(* Two invocations in flight on one OpenAIService instance.  The locals of *)
(* an invocation (attempt, formatted_messages) live in its own frame; the  *)
(* fields of self are shared.  Between two awaits a coroutine runs alone,  *)
(* so an action is the code from one await to the next.                    *)
(***************************************************************************)
Invocations == 1..2

OpenAIOperations ==
    {GenerateResponse, GenerateSqlResponse, GenerateApiResponse,
     GenerateResponseWithResources}

\* The message list an operation assembles before its loop.
FormattedFrom(o, msgs) == <<o, msgs>>

\* The request as it would be if the messages were assembled anew for each
\* attempt, the number of the attempt among them.
CompletionRequestPerAttempt(i) ==
    [messages |-> Append(inv[i].formatted_messages, inv[i].attempt),
     temperature |-> self_fields.temperature,
     max_tokens |-> self_fields.max_tokens]

\* The arguments of self._client.chat.completions.create on an attempt.
CompletionRequest(i) ==
    [messages |-> inv[i].formatted_messages,
     temperature |-> self_fields.temperature,
     max_tokens |-> self_fields.max_tokens]

\* The attempt after a delay as it would be with a counter kept on self.
NextAttemptShared(i) ==
    LET a == inv[1].attempt
        b == inv[2].attempt
    IN  (IF a >= b THEN a ELSE b) + 1

\* The next value of the loop variable of invocation i.
NextAttempt(i) == inv[i].attempt + 1

\* A cancellation as it would be if a handler of the loop caught it and the
\* loop went on.
OnCancelledCaught(o, n, k) == AfterSleep(o, n, k)

\* CancelledError raised by `await asyncio.sleep(wait_time)`: the sleep is
\* inside the `except RateLimitError` handler, so no handler of the loop
\* applies to it.
OnCancelled(o, n, k) ==
    [pc |-> "cancelled", result |-> "none", err |-> "CancelledError", backoff |-> 0]

\* The outcomes received so far, as a script.
AsScript(outcomes) ==
    [n \in 1..(MaxRetries + 1) |-> IF n <= Len(outcomes) THEN outcomes[n] ELSE "error"]

InitShared ==
    /\ RetryIdle
    /\ BackoffIdle
    /\ PrepareIdle
    /\ ParseIdle
    /\ self_fields \in [max_retries : 0..MaxRetries, temperature : {0}, max_tokens : {1000}]
    /\ inv = [i \in Invocations |-> [IdleFrame EXCEPT !.messages = i]]
    /\ ConversationIdle
    /\ RealtimeIdle

\* The call of an operation up to its first await.
SharedInvoke(i, o) ==
    /\ inv[i].pc = "idle"
    /\ LET f == inv[i]
       IN  inv' = [inv EXCEPT ![i] =
                IF PrepareRaises(o)
                THEN [f EXCEPT !.op = o, !.pc = "raised", !.err = "AttributeError"]
                ELSE IF self_fields.max_retries >= 1
                THEN [f EXCEPT !.op = o, !.pc = "attempting", !.attempt = 1,
                               !.formatted_messages = FormattedFrom(o, f.messages)]
                ELSE [f EXCEPT !.op = o, !.pc = "returned",
                               !.formatted_messages = FormattedFrom(o, f.messages)]]
    /\ UNCHANGED <<self_fields, clientVars, conversationVars, realtimeVars>>

\* The completion call of invocation i is answered.
SharedCall(i, outcome) ==
    /\ inv[i].pc = "attempting"
    /\ LET f == inv[i]
           k == self_fields.max_retries
           h == CASE outcome \in SuccessOutcomes -> OnSuccess(f.op, f.attempt, k, outcome)
                  [] outcome = "rate_limit" -> OnRateLimit(f.op, f.attempt, k)
                  [] OTHER -> OnError(f.op, f.attempt, k)
       IN  inv' = [inv EXCEPT ![i] =
                [f EXCEPT !.pc = h.pc, !.err = h.err, !.calls = @ + 1,
                          !.outcomes = Append(@, outcome),
                          !.sent = Append(@, CompletionRequest(i))]]
    /\ UNCHANGED <<self_fields, clientVars, conversationVars, realtimeVars>>

\* The sleep of invocation i ends.
SharedSleepDone(i) ==
    /\ inv[i].pc = "delaying"
    /\ LET f == inv[i]
           a == AfterSleep(f.op, f.attempt, self_fields.max_retries)
       IN  inv' = [inv EXCEPT ![i] =
                [f EXCEPT !.pc = a.pc, !.err = a.err, !.delays = @ + 1,
                          !.attempt = IF a.pc = "attempting" THEN NextAttempt(i) ELSE @]]
    /\ UNCHANGED <<self_fields, clientVars, conversationVars, realtimeVars>>

\* The caller of invocation i is cancelled during the sleep.
SharedCancel(i) ==
    /\ inv[i].pc = "delaying"
    /\ LET f == inv[i]
           h == OnCancelled(f.op, f.attempt, self_fields.max_retries)
       IN  inv' = [inv EXCEPT ![i] =
                [f EXCEPT !.pc = h.pc, !.err = h.err, !.cancelled = TRUE,
                          !.attempt = IF h.pc = "attempting" THEN NextAttempt(i) ELSE @]]
    /\ UNCHANGED <<self_fields, clientVars, conversationVars, realtimeVars>>

NextShared ==
    \/ \E i \in Invocations, o \in OpenAIOperations : SharedInvoke(i, o)
    \/ \E i \in Invocations, outcome \in Outcomes : SharedCall(i, outcome)
    \/ \E i \in Invocations : SharedSleepDone(i)
    \/ \E i \in Invocations : SharedCancel(i)

SpecShared == InitShared /\ [][NextShared]_vars

\* C21: invocations in flight on one service instance do not interfere:
\* the calls, the delays and the outcome of each are those of a run alone
\* on the API outcomes it received, and no field of the instance is written.
C21_NoInterference ==
    /\ [](\A i \in Invocations :
            inv[i].pc \in {"returned", "raised"} =>
                LET alone == Run(inv[i].op, self_fields.max_retries, AsScript(inv[i].outcomes))
                IN  /\ inv[i].pc = alone.pc
                    /\ inv[i].err = alone.err
                    /\ inv[i].calls = alone.calls
                    /\ inv[i].delays = alone.delays)
    /\ [][self_fields' = self_fields]_vars

\* Witness of C21: both invocations retried, on different outcomes, and
\* ended differently.
C21_Witness ==
    /\ inv[1].pc = "returned"
    /\ inv[2].pc = "raised"
    /\ inv[1].calls = 3
    /\ inv[2].calls = 2
    /\ inv[1].delays = 2
    /\ inv[2].delays = 1
    /\ inv[1].op = inv[2].op

\* C22: when the caller is cancelled during the backoff sleep the
\* operation ends with the cancellation, issues no further completion call
\* and has changed neither the caller's message list nor the service.
C22_CancelledWhileDelaying ==
    /\ [](\A i \in Invocations :
            inv[i].cancelled =>
                /\ inv[i].pc = "cancelled"
                /\ inv[i].err = "CancelledError"
                /\ inv[i].messages = i)
    /\ [][\A i \in Invocations :
            /\ (inv[i].pc = "delaying" /\ inv'[i].cancelled) =>
                    /\ inv'[i].calls = inv[i].calls
                    /\ inv'[i].delays = inv[i].delays
                    /\ self_fields' = self_fields
            /\ (inv[i].cancelled => inv'[i] = inv[i])]_vars

\* Witness of C22: an invocation was cancelled during its second sleep
\* with retries left.
C22_Witness ==
    \E i \in Invocations :
        /\ inv[i].cancelled
        /\ inv[i].pc = "cancelled"
        /\ inv[i].calls = 2
        /\ inv[i].delays = 1
        /\ inv[i].attempt < self_fields.max_retries

\* C23: all completion calls of one invocation carry the identical
\* request: the same messages, temperature and max_tokens.
C23_SameRequest ==
    \A i \in Invocations :
        \A n \in 1..Len(inv[i].sent) :
            /\ inv[i].sent[n] = inv[i].sent[1]
            /\ inv[i].sent[n].messages = FormattedFrom(inv[i].op, inv[i].messages)

\* Witness of C23: an invocation has made three calls.
C23_Witness ==
    \E i \in Invocations :
        /\ Len(inv[i].sent) = 3
        /\ inv[i].calls = 3
        /\ inv[i].delays = 2

(***************************************************************************)
(* ConversationCommandHandler.  The handler is a Singleton built with one  *)
(* unit of work, so its invocations share that unit of work; they          *)
(* interleave at the awaits that suspend (the agent lookup, the HTTP calls *)
(* and the AI calls).  The Dynamo repository's get and save do not         *)
(* suspend: they run with the code around them.                            *)
(***************************************************************************)
AIServices == {"OpenAIService", "AIService"}

\* The messages of a conversation stored before the handler is called.
OldMessages ==
    <<[role |-> "user", content |-> <<"question", 0>>],
      [role |-> "assistant", content |-> <<"answer", 0>>]>>

\* command.message of invocation h.
CommandMessage(h) == <<"question", h>>

\* What generate_response_with_resources can return to invocation h: the
\* content of the response, or "" after a rate limit.
ResponseMessages(h) == {<<"answer", h>>, <<>>}

UserMessage(h) == [role |-> "user", content |-> CommandMessage(h)]

AgentMessage(content) == [role |-> "assistant", content |-> content]

\* The awaits of the handler that suspend, in order.
Awaits ==
    <<"agent_lookup", "resource_info", "api_response", "get_data",
      "response_with_resources">>

AwaitIndex(p) == CHOOSE n \in 1..Len(Awaits) : Awaits[n] = p

\* __aenter__: the repositories are built anew.
UowEntered == [agent_chat_bots |-> "repository", conversations |-> "repository"]

\* __aexit__: the repository attributes are set to None.
UowExited == [agent_chat_bots |-> "None", conversations |-> "None"]

\* The table after lines 69-76 as it would be without the save of line 76.
StoreAfterGetUnsaved(st, c) == st

\* The table after lines 69-76: a conversation that is not found is saved
\* with an empty message list.
StoreAfterGet(st, c) ==
    IF st[c].exists THEN st ELSE [st EXCEPT ![c] = Stored(<<>>)]

\* conversation.messages.append(message) as it would be with insert(0, ...).
PrependMessage(msgs, m) == <<m>> \o msgs

\* conversation.messages.append(message)
AppendMessage(msgs, m) == Append(msgs, m)

\* __aexit__ as it would be if it saved the conversation on an error.
StoreOnErrorSaving(st, c, msgs) == [st EXCEPT ![c] = Stored(msgs)]

\* What an error leaves in the table: __aexit__ logs it and writes nothing.
StoreOnError(st, c, msgs) == st

InitConversation ==
    /\ RetryIdle
    /\ BackoffIdle
    /\ PrepareIdle
    /\ ParseIdle
    /\ SharedIdle
    /\ RealtimeIdle
    /\ store \in [ConversationIds -> {Absent, Stored(OldMessages)}]
    /\ uow = UowExited
    /\ ai_service \in AIServices
    /\ hnd = [h \in Handlers |-> IdleHandler]

\* Lines 67-89, up to the await of the agent lookup.
HandlerCall(h, c) ==
    /\ hnd[h].pc = "idle"
    /\ uow' = UowEntered
    /\ store' = StoreAfterGet(store, c)
    /\ hnd' = [hnd EXCEPT ![h] =
            [hnd[h] EXCEPT !.pc = "agent_lookup",
                           !.conversation_id = c,
                           !.before = store[c],
                           !.messages = AppendMessage(store[c].messages, UserMessage(h)),
                           !.saved = IF store' # store THEN <<store'[c].messages>> ELSE <<>>]]
    /\ UNCHANGED <<ai_service, clientVars, sharedVars, realtimeVars>>

\* An await other than the last returns.  OpenAIService.generate_api_response
\* never returns: it raises AttributeError in prompt assembly.
HandlerAwaitReturns(h) ==
    /\ hnd[h].pc \in {Awaits[n] : n \in 1..(Len(Awaits) - 1)}
    /\ ~(hnd[h].pc = "api_response" /\ ai_service = "OpenAIService")
    /\ hnd' = [hnd EXCEPT ![h].pc = Awaits[AwaitIndex(hnd[h].pc) + 1]]
    /\ UNCHANGED <<store, uow, ai_service, clientVars, sharedVars, realtimeVars>>

\* An await raises: the error leaves the `async with` block.
HandlerAwaitRaises(h) ==
    /\ hnd[h].pc \in {Awaits[n] : n \in 1..Len(Awaits)}
    /\ hnd' = [hnd EXCEPT ![h] =
            [hnd[h] EXCEPT !.pc = "raised",
                           !.err = IF hnd[h].pc = "api_response" /\ ai_service = "OpenAIService"
                                   THEN "AttributeError" ELSE "Error"]]
    /\ store' = StoreOnError(store, hnd[h].conversation_id, hnd[h].messages)
    /\ uow' = UowExited
    /\ UNCHANGED <<ai_service, clientVars, sharedVars, realtimeVars>>

\* generate_response_with_resources returns: lines 105-119.  The attribute
\* uow.conversations is read at line 114.
HandlerFinish(h, message) ==
    /\ hnd[h].pc = "response_with_resources"
    /\ LET f == hnd[h]
           msgs == AppendMessage(f.messages, AgentMessage(message))
       IN  IF uow.conversations = "None"
           THEN /\ hnd' = [hnd EXCEPT ![h] =
                        [f EXCEPT !.pc = "raised", !.err = "AttributeError", !.messages = msgs]]
                /\ store' = StoreOnError(store, f.conversation_id, msgs)
           ELSE /\ hnd' = [hnd EXCEPT ![h] =
                        [f EXCEPT !.pc = "returned", !.messages = msgs,
                                  !.message = message,
                                  !.saved = Append(f.saved, msgs)]]
                /\ store' = [store EXCEPT ![f.conversation_id] = Stored(msgs)]
    /\ uow' = UowExited
    /\ UNCHANGED <<ai_service, clientVars, sharedVars, realtimeVars>>

NextConversation ==
    \/ \E h \in Handlers, c \in ConversationIds : HandlerCall(h, c)
    \/ \E h \in Handlers : HandlerAwaitReturns(h)
    \/ \E h \in Handlers : HandlerAwaitRaises(h)
    \/ \E h \in Handlers : \E message \in ResponseMessages(h) : HandlerFinish(h, message)

SpecConversation == InitConversation /\ [][NextConversation]_vars

\* The stored messages of the conversation of invocation h.
StoredMessages(h) == store[hnd[h].conversation_id].messages

\* C24: when the handler returns, the conversation stored under
\* command.conversation_id has the message list stored before the call
\* followed by the user's message and then the assistant's message, whose
\* content is the returned message.
C24_TwoMessagesAppended ==
    [][\A h \in Handlers :
            (hnd[h].pc # "returned" /\ hnd'[h].pc = "returned") =>
                LET c == hnd[h].conversation_id
                IN  /\ store'[c].exists
                    /\ store'[c].messages =
                            hnd[h].before.messages
                            \o <<[role |-> "user", content |-> CommandMessage(h)],
                                 [role |-> "assistant", content |-> hnd'[h].message]>>
                    /\ \A d \in ConversationIds \ {c} : store'[d] = store[d]]_vars

\* Witness of C24: an invocation returned on a conversation that had
\* messages before.
C24_Witness ==
    \E h \in Handlers :
        /\ hnd[h].pc = "returned"
        /\ hnd[h].before = Stored(OldMessages)
        /\ hnd[h].message = <<"answer", h>>
        /\ Len(StoredMessages(h)) = 4

\* C25: when a step after the append of the user message raises, the
\* handler ends with the error, the step writes nothing to the table and
\* the invocation has persisted no message.
C25_NothingPersistedOnError ==
    /\ [](\A h \in Handlers :
            hnd[h].pc = "raised" =>
                /\ hnd[h].err # "none"
                /\ \A n \in 1..Len(hnd[h].saved) : hnd[h].saved[n] = <<>>)
    /\ [][\A h \in Handlers :
            (hnd[h].pc # "raised" /\ hnd'[h].pc = "raised") => store' = store]_vars

\* Witness of C25: an AI call raised after the user message was appended
\* in memory, and the stored conversation is as it was.
C25_Witness ==
    \E h \in Handlers :
        /\ hnd[h].pc = "raised"
        /\ hnd[h].err = "AttributeError"
        /\ hnd[h].before = Stored(OldMessages)
        /\ hnd[h].messages = Append(OldMessages, UserMessage(h))
        /\ StoredMessages(h) = OldMessages

\* The messages that invocation h appended.
Appended(h) == {UserMessage(h), AgentMessage(hnd[h].message)}

ResourceIds == {"r1", "r2"}

ResourceTypes == {"DATABASE", "REST_API"}

\* The awaits of a task, in order.
Steps(type) ==
    IF type = "DATABASE"
    THEN <<"check_query", "enter", "get_connection_params", "get_by_id", "exit",
           "execute_query">>
    ELSE <<"enter", "get_by_id", "exit", "get_data">>

\* The step at which the fetch of a resource fails, or "none".
Failures(type) == {"none"} \cup ({Steps(type)[n] : n \in 1..Len(Steps(type))} \ {"enter", "exit"})

\* command.realtime_resource together with what will happen to each fetch.
RealtimeResources ==
    UNION {[resource_id : ResourceIds, resource_type : {type}, fails : Failures(type)] :
                type \in ResourceTypes}

Commands == UNION {[1..n -> RealtimeResources] : n \in 0..MaxResources}

\* Awaits as they would suspend if the secrets repository awaited its
\* client.
SuspendsInRepository(step) ==
    step \in {"get_connection_params", "execute_query", "get_data"}

\* Whether an await suspends the task.  check_query and the repository
\* methods are `async def` without an await of their own (sqlparse and
\* boto3 calls), and so are __aenter__ and __aexit__: only the query and
\* the HTTP request suspend.
Suspends(step) == step \in {"execute_query", "get_data"}

\* __aenter__ of the unit of work.
RtUowEntered == [realtime_resources |-> "repository", realtime_databases |-> "repository"]

\* __aexit__ of the unit of work: realtime_databases is not reset.
RtUowExited(u) == [u EXCEPT !.realtime_resources = "None"]

NewTask(resource) ==
    [resource |-> resource, next |-> 1, pc |-> "created", in_block |-> FALSE,
     entry |-> <<>>, raised |-> FALSE, used_none |-> FALSE]

\* The result of a task: {resource_id: data}
DataEntry(f) == [resource_id |-> f.resource.resource_id, value |-> <<"data", f.resource.resource_id>>]

\* The result of a task that failed: {resource_id: f"Error getting ... {e}"}
ErrorEntry(f, error) == [resource_id |-> f.resource.resource_id, value |-> <<"Error getting data", error>>]

\* A task as it would end on an error without the try of lines 48-60.
OnTaskErrorRaised(f, error) ==
    [f EXCEPT !.pc = "done", !.in_block = FALSE, !.raised = TRUE]

\* except Exception as e: return {resource_id: f"Error ...: {e}"}
OnTaskError(f, error) ==
    [f EXCEPT !.pc = "done", !.in_block = FALSE, !.entry = ErrorEntry(f, error)]

\* One step of a task on the unit of work u.  An error inside the
\* `async with` block runs __aexit__ on its way out.
Exec(step, u, f) ==
    LET fails == f.resource.fails = step
    IN  CASE step = "check_query" ->
                [uow |-> u, frame |-> IF fails THEN OnTaskError(f, "CustomValueError") ELSE f]
          [] step = "enter" ->
                [uow |-> RtUowEntered, frame |-> [f EXCEPT !.in_block = TRUE]]
          [] step = "get_connection_params" ->
                IF u.realtime_databases # "repository"
                THEN [uow |-> RtUowExited(u),
                      frame |-> OnTaskError([f EXCEPT !.used_none = TRUE], "AttributeError")]
                ELSE IF fails
                THEN [uow |-> RtUowExited(u), frame |-> OnTaskError(f, "ClientError")]
                ELSE [uow |-> u, frame |-> f]
          [] step = "get_by_id" ->
                IF u.realtime_resources # "repository"
                THEN [uow |-> RtUowExited(u),
                      frame |-> OnTaskError([f EXCEPT !.used_none = TRUE], "AttributeError")]
                ELSE IF fails
                THEN [uow |-> RtUowExited(u), frame |-> OnTaskError(f, "CustomValueError")]
                ELSE [uow |-> u, frame |-> f]
          [] step = "exit" ->
                [uow |-> RtUowExited(u), frame |-> [f EXCEPT !.in_block = FALSE]]
          [] OTHER ->
                [uow |-> u,
                 frame |-> IF fails THEN OnTaskError(f, "Error")
                           ELSE [f EXCEPT !.pc = "done", !.entry = DataEntry(f)]]

\* A task runs from its step f.next up to the next await that suspends.
RECURSIVE RunTask(_, _)
RunTask(u, f) ==
    LET steps == Steps(f.resource.resource_type)
        x == Exec(steps[f.next], u, f)
    IN  IF x.frame.pc = "done" THEN x
        ELSE LET g == [x.frame EXCEPT !.next = f.next + 1]
             IN  IF Suspends(steps[g.next])
                 THEN [uow |-> x.uow, frame |-> [g EXCEPT !.pc = "suspended"]]
                 ELSE RunTask(x.uow, g)

InitRealtime ==
    /\ RetryIdle
    /\ BackoffIdle
    /\ PrepareIdle
    /\ ParseIdle
    /\ SharedIdle
    /\ ConversationIdle
    /\ RealtimeIdle

\* __call__ up to the await of asyncio.gather: lines 36-44.
RealtimeCall(command) ==
    /\ rt.pc = "idle"
    /\ rt' = [rt EXCEPT !.pc = "gathering", !.command = command,
                        !.tasks = [n \in 1..Len(command) |-> NewTask(command[n])]]
    /\ UNCHANGED <<rt_uow, clientVars, sharedVars, conversationVars>>

\* The event loop runs task n up to its next suspension.
TaskRuns(n) ==
    /\ rt.pc = "gathering"
    /\ n \in 1..Len(rt.tasks)
    /\ rt.tasks[n].pc # "done"
    /\ LET x == RunTask(rt_uow, rt.tasks[n])
       IN  /\ rt_uow' = x.uow
           /\ rt' = [rt EXCEPT !.tasks[n] = x.frame]
    /\ UNCHANGED <<clientVars, sharedVars, conversationVars>>

\* asyncio.gather returns the results in the order of the tasks, or raises
\* what a task raised.
GatherDone ==
    /\ rt.pc = "gathering"
    /\ \A n \in 1..Len(rt.tasks) : rt.tasks[n].pc = "done"
    /\ rt' = IF \E n \in 1..Len(rt.tasks) : rt.tasks[n].raised
             THEN [rt EXCEPT !.pc = "raised"]
             ELSE [rt EXCEPT !.pc = "returned",
                             !.results = [n \in 1..Len(rt.tasks) |-> rt.tasks[n].entry]]
    /\ UNCHANGED <<rt_uow, clientVars, sharedVars, conversationVars>>

NextRealtime ==
    \/ \E command \in Commands : RealtimeCall(command)
    \/ \E n \in 1..MaxResources : TaskRuns(n)
    \/ GatherDone

SpecRealtime == InitRealtime /\ [][NextRealtime]_vars

\* C28: the handler does not raise and returns one entry per resource, in
\* input order, each keyed by its resource_id; the entry of a resource
\* whose fetch failed is an error string, and the entry of every other
\* resource is its data.
C28_OneEntryPerResource ==
    /\ rt.pc # "raised"
    /\ rt.pc = "returned" =>
            /\ Len(rt.results) = Len(rt.command)
            /\ \A n \in 1..Len(rt.command) :
                    /\ rt.results[n].resource_id = rt.command[n].resource_id
                    /\ rt.results[n].value =
                            IF rt.command[n].fails = "none"
                            THEN <<"data", rt.command[n].resource_id>>
                            ELSE <<"Error getting data", rt.results[n].value[2]>>
                    /\ rt.results[n].value[1] \in {"data", "Error getting data"}

\* Witness of C28: of two resources the fetch of the first failed and the
\* second has its data.
C28_Witness ==
    /\ rt.pc = "returned"
    /\ Len(rt.command) = 2
    /\ rt.command[1].fails = "get_by_id"
    /\ rt.command[2].fails = "none"
    /\ rt.command[1].resource_id = "r2"
    /\ rt.command[2].resource_id = "r1"
    /\ rt.results[1].value = <<"Error getting data", "CustomValueError">>
    /\ rt.results[2].value = <<"data", "r1">>

\* C29: no task inside its `async with` block uses a repository attribute
\* that the exit of another task has set to None: a task is never
\* suspended inside the block, and none has read an attribute that was not
\* a repository.
C29_NoRepositoryUsedAfterExit ==
    \A n \in 1..Len(rt.tasks) :
        /\ ~rt.tasks[n].used_none
        /\ rt.tasks[n].pc = "suspended" => ~rt.tasks[n].in_block

\* Witness of C29: a task is suspended in its query after its block while
\* another task has entered and exited the unit of work and ended.
C29_Witness ==
    /\ rt.pc = "gathering"
    /\ Len(rt.tasks) = 2
    /\ rt.tasks[1].pc = "suspended"
    /\ rt.tasks[1].resource.resource_type = "DATABASE"
    /\ rt.tasks[2].pc = "done"
    /\ rt.tasks[2].entry = DataEntry(rt.tasks[2])
    /\ rt_uow.realtime_resources = "None"

====
